---- MODULE Spec2Model ----
(***************************************************************************)
(* Model of gpu_worker.py: the poll / sync / process / report loop of      *)
(* worker_loop, with is_within_schedule, save_settings, load_settings,     *)
(* run_sdxl and process_job as the operators the loop calls.               *)
(*                                                                         *)
(* The loop is cut at its blocking calls (the three sleeps inside the try, *)
(* the sleep of the exception handler, the poll GET, the backend POST and  *)
(* the completion POST), because a KeyboardInterrupt is delivered while    *)
(* one of them blocks and the handler that catches it depends on where.    *)
(***************************************************************************)
EXTENDS Integers, Sequences, FiniteSets, TLC

(* ------------------------------------------------------------------ *)
(* Program constants                                                    *)
(* ------------------------------------------------------------------ *)

POLL_INTERVAL == 5

\* the cap of min(POLL_INTERVAL * errors, 60)
BACKOFF_CAP == 60

(* ------------------------------------------------------------------ *)
(* Bounds of the model                                                  *)
(* ------------------------------------------------------------------ *)

\* errors is an unbounded Python int; 13 * POLL_INTERVAL is past the cap
MaxErrors == 13

\* largest settings_version the dispatch server announces
MaxVer == 2

\* longest rule list of a schedule given to is_within_schedule on its own
MaxRules == 2

\* longest images list of a backend answer given to run_sdxl on its own
MaxImages == 2

(* ------------------------------------------------------------------ *)
(* Python values                                                        *)
(* ------------------------------------------------------------------ *)

\* dict.get(key, default) on a field that may be missing
NoKey == -1

Get(v, default) == IF v = NoKey THEN default ELSE v

Min(a, b) == IF a <= b THEN a ELSE b

\* "HH:MM" strings as sequences of character codes: digits are 0..9 and
\* ':' (which sorts after '9') is 10
T0000 == <<0, 0, 10, 0, 0>>
T0800 == <<0, 8, 10, 0, 0>>
T0900 == <<0, 9, 10, 0, 0>>
T1200 == <<1, 2, 10, 0, 0>>
T1700 == <<1, 7, 10, 0, 0>>
T2000 == <<2, 0, 10, 0, 0>>
T2359 == <<2, 3, 10, 5, 9>>

\* Python's <= on str: the first differing character decides, a proper
\* prefix is smaller
RECURSIVE StrLeq(_, _)
StrLeq(a, b) ==
    IF a = <<>> THEN TRUE
    ELSE IF b = <<>> THEN FALSE
    ELSE IF Head(a) < Head(b) THEN TRUE
    ELSE IF Head(a) > Head(b) THEN FALSE
    ELSE StrLeq(Tail(a), Tail(b))

(* ------------------------------------------------------------------ *)
(* Schedules and settings documents                                     *)
(* ------------------------------------------------------------------ *)

\* schedule.timezone: a key ZoneInfo finds, a key it does not find
\* (ZoneInfoNotFoundError, a KeyError), a key it rejects (ValueError)
TzOk == "UTC"
TzUnknown == "Mars/Phobos"
TzMalformed == "../etc"

Rule(days, s, e) == [days |-> days, start_time |-> s, end_time |-> e]

\* settings.get('schedule', {}) when the key is missing
NoSchedule == [present |-> FALSE, enabled |-> FALSE, timezone |-> TzOk, rules |-> <<>>]

Schedule(en, tz, rules) == [present |-> TRUE, enabled |-> en, timezone |-> tz, rules |-> rules]

SchedOffice == Schedule(TRUE, TzOk, <<Rule({"mon"}, T0900, T1700)>>)
SchedBadTz == Schedule(TRUE, TzMalformed, <<Rule({"mon"}, T0900, T1700)>>)

\* a settings value: None, the empty dict, or a dict with keys
NoneDoc == [kind |-> "none", settings_version |-> NoKey, schedule |-> NoSchedule]
EmptyDoc == [kind |-> "empty", settings_version |-> NoKey, schedule |-> NoSchedule]

Doc(ver, sched) == [kind |-> "dict", settings_version |-> ver, schedule |-> sched]

DocPlain == Doc(NoKey, NoSchedule)
DocOffice == Doc(1, SchedOffice)
DocBadTz == Doc(2, SchedBadTz)

\* the documents a config_sync payload carries under 'settings'
PayloadDocs == {NoneDoc, DocPlain, DocOffice, DocBadTz}

\* Python truthiness of a settings value
Truthy(doc) == doc.kind = "dict"

\* the settings file: missing, unparseable, or holding a document
FileAbsent == [kind |-> "absent", settings_version |-> NoKey, schedule |-> NoSchedule]
FileCorrupt == [kind |-> "corrupt", settings_version |-> NoKey, schedule |-> NoSchedule]

\* the clock readings datetime.now(tz) is drawn from
Days == {"mon", "tue"}
Times == {T0800, T1200, T2000}

Reading(day, time) == [day |-> day, time |-> time]

\* datetime.now was not called
NoClock == Reading("", <<>>)

(* ------------------------------------------------------------------ *)
(* is_within_schedule, load_settings                                    *)
(* ------------------------------------------------------------------ *)

\* a rule without the start_time or end_time key holds NoTime there
NoTime == <<NoKey>>

\* rule.get('start_time', '00:00'), rule.get('end_time', '23:59')
GetTime(v, default) == IF v = NoTime THEN default ELSE v

\* variant with the end of the window left out
RuleMatchesOpenEnd(rule, day, time) ==
    /\ day \in rule.days
    /\ StrLeq(GetTime(rule.start_time, T0000), time)
    /\ ~StrLeq(GetTime(rule.end_time, T2359), time)

RuleMatches(rule, day, time) ==
    /\ day \in rule.days
    /\ StrLeq(GetTime(rule.start_time, T0000), time)
    /\ StrLeq(time, GetTime(rule.end_time, T2359))

\* "true", "false", or "raise" when ZoneInfo rejects the key with an
\* exception the function does not catch
is_within_schedule(schedule, day, time) ==
    IF ~schedule.present \/ ~schedule.enabled THEN "true"
    ELSE IF schedule.timezone = TzUnknown THEN "true"
    ELSE IF schedule.timezone = TzMalformed THEN "raise"
    ELSE IF \E i \in 1..Len(schedule.rules) : RuleMatches(schedule.rules[i], day, time)
         THEN "true"
         ELSE "false"

load_settings(f) == IF f.kind \in {"absent", "corrupt"} THEN NoneDoc ELSE f

\* settings.get('settings_version', 0) if settings else 0
InitialVersion(s) == IF Truthy(s) THEN Get(s.settings_version, 0) ELSE 0

(* ------------------------------------------------------------------ *)
(* Poll responses, jobs, backend responses, job results                 *)
(* ------------------------------------------------------------------ *)

NoService == "<missing>"

\* data.get('job') when the key is missing
NoJob == [id |-> "<none>", service |-> NoService]

Job(id, service) == [id |-> id, service |-> service]

Jobs == {Job("j1", "sdxl"), Job("j1", "unknown"), Job("j2", NoService)}

\* data.get('config_sync') when the key is missing
NoSync == [present |-> FALSE, settings_version |-> NoKey, settings |-> NoneDoc]

Sync(ver, doc) == [present |-> TRUE, settings_version |-> ver, settings |-> doc]

SyncPayloads == {Sync(v, d) : v \in 0..MaxVer, d \in PayloadDocs} \cup {Sync(NoKey, DocPlain)}

\* the parsed body of a 200 poll response
NoData == [config_sync |-> NoSync, job |-> NoJob]

PollBodies == [config_sync : {NoSync} \cup SyncPayloads, job : {NoJob} \cup Jobs]

\* statuses of the poll other than 200 and 401
BadStatuses == {500}

\* what the local backend answers to POST /txt2img
NoImage == "<missing>"

Backend(kind, status, json, images, image, seed) ==
    [kind |-> kind, status |-> status, json |-> json, images |-> images,
     image |-> image, seed |-> seed]

\* no request was sent
NoBackend == Backend("none", 0, FALSE, <<>>, NoImage, NoKey)

BackendOutcomes ==
    { Backend("exception", 0, FALSE, <<>>, NoImage, NoKey),
      Backend("http", 500, FALSE, <<>>, NoImage, NoKey),
      Backend("http", 200, FALSE, <<>>, NoImage, NoKey),
      Backend("http", 200, TRUE, <<"abc", "def">>, NoImage, 42),
      Backend("http", 200, TRUE, <<>>, "xyz", NoKey),
      Backend("http", 200, TRUE, <<>>, NoImage, 42) }

\* a dict with the keys it has; the fields of a missing key hold fillers
NoErr == [msg |-> "", code |-> 0, tag |-> ""]

Err(msg, code, tag) == [msg |-> msg, code |-> code, tag |-> tag]

NoPayload == [image |-> NoImage, seed |-> 0, timed |-> FALSE]

Out(keys, error, payload) == [keys |-> keys, error |-> error, result |-> payload]

NoResult == Out({}, NoErr, NoPayload)

(* ------------------------------------------------------------------ *)
(* run_sdxl, process_job                                                *)
(* ------------------------------------------------------------------ *)

\* variant that takes the last image of the list
run_sdxl_last(b) ==
    IF b.kind = "exception" THEN Out({"error"}, Err("transport", 0, ""), NoPayload)
    ELSE IF b.status # 200 THEN Out({"error"}, Err("Server error", b.status, ""), NoPayload)
    ELSE IF ~b.json THEN Out({"error"}, Err("json", 0, ""), NoPayload)
    ELSE IF Len(b.images) > 0
         THEN Out({"result"}, NoErr,
                  [image |-> b.images[Len(b.images)], seed |-> Get(b.seed, -1),
                   timed |-> FALSE])
    ELSE IF b.image # NoImage
         THEN Out({"result"}, NoErr,
                  [image |-> b.image, seed |-> Get(b.seed, -1), timed |-> FALSE])
    ELSE Out({"error"}, Err("No image", 0, ""), NoPayload)

\* the dict run_sdxl returns: {'error': ...} or {'image': ..., 'seed': ...},
\* held here under the keys "error" and "result"
run_sdxl(b) ==
    IF b.kind = "exception" THEN Out({"error"}, Err("transport", 0, ""), NoPayload)
    ELSE IF b.status # 200 THEN Out({"error"}, Err("Server error", b.status, ""), NoPayload)
    ELSE IF ~b.json THEN Out({"error"}, Err("json", 0, ""), NoPayload)
    ELSE IF Len(b.images) > 0
         THEN Out({"result"}, NoErr,
                  [image |-> b.images[1], seed |-> Get(b.seed, -1), timed |-> FALSE])
    ELSE IF b.image # NoImage
         THEN Out({"result"}, NoErr,
                  [image |-> b.image, seed |-> Get(b.seed, -1), timed |-> FALSE])
    ELSE Out({"error"}, Err("No image", 0, ""), NoPayload)

\* job.get('service', 'sdxl')
ServiceOf(j) == IF j.service = NoService THEN "sdxl" ELSE j.service

\* variant without the service test before run_sdxl
CallsBackendAlways(j) == TRUE

\* whether process_job sends the job to the backend
CallsBackend(j) == ServiceOf(j) = "sdxl"

\* variant without the test for 'error' in the dict run_sdxl returns
process_job_unchecked(j, b) ==
    IF ~CallsBackend(j)
    THEN Out({"error"}, Err("Unsupported service", 0, ServiceOf(j)), NoPayload)
    ELSE Out({"result"}, NoErr, [run_sdxl(b).result EXCEPT !.timed = TRUE])

\* variant that keeps run_sdxl's dict beside the error it reports
process_job_both(j, b) ==
    IF ~CallsBackend(j)
    THEN Out({"error"}, Err("Unsupported service", 0, ServiceOf(j)), NoPayload)
    ELSE LET r == run_sdxl(b)
         IN  IF "error" \in r.keys
             THEN Out({"error", "result"}, r.error, [r.result EXCEPT !.timed = TRUE])
             ELSE Out({"result"}, NoErr, [r.result EXCEPT !.timed = TRUE])

process_job(j, b) ==
    IF ~CallsBackend(j)
    THEN Out({"error"}, Err("Unsupported service", 0, ServiceOf(j)), NoPayload)
    ELSE LET r == run_sdxl(b)
         IN  IF "error" \in r.keys
             THEN Out({"error"}, r.error, NoPayload)
             ELSE Out({"result"}, NoErr, [r.result EXCEPT !.timed = TRUE])

(* ------------------------------------------------------------------ *)
(* State of worker_loop                                                 *)
(* ------------------------------------------------------------------ *)

VARIABLES
    pc,               \* where the loop is
    settings,         \* the local settings
    settings_version, \* the local settings_version
    file,             \* the content of SETTINGS_FILE
    errors,           \* the local errors
    resp,             \* status_code of the local resp, 0 before the first response
    data,             \* the local data, NoData before the first parsed body
    job,              \* the local job
    result,           \* the local result
    post,             \* the completion request sent last: its job id and body
    slept,            \* seconds of the sleep entered last, 0 before the first
    fails,            \* poll failures (not 200, not 401, or raised) since the last parsed 200
    owed,             \* id of a delivered job whose completion request is not sent yet
    backendCalls,     \* requests sent to the backend for the job in hand
    backend,          \* what the backend answered to the request for the job in hand
    clock,            \* the weekday and time is_within_schedule read from datetime.now
    arg,              \* the argument of a function called on its own
    ret               \* what that function returned

vars == <<pc, settings, settings_version, file, errors, resp, data, job, result,
          post, slept, fails, owed, backendCalls, backend, clock, arg, ret>>

NoPost == [id |-> "<none>", body |-> NoResult]

\* positions inside the try block of the loop
InTry == {"top", "gate_sleep", "polling", "status_sleep", "sync", "dispatch",
          "processing", "reporting", "idle_sleep"}

\* the files load_settings may find at startup
StartFiles == {FileAbsent, FileCorrupt, EmptyDoc, DocPlain, DocOffice}

\* no function is called on its own
NoCall == "<none>"

\* the locals of worker_loop when the loop is entered
LoopEntry ==
    /\ settings = load_settings(file)
    /\ settings_version = InitialVersion(settings)
    /\ errors = 0
    /\ resp = 0
    /\ data = NoData
    /\ job = NoJob
    /\ result = NoResult
    /\ post = NoPost
    /\ slept = 0
    /\ fails = 0
    /\ owed = "<none>"
    /\ backendCalls = 0
    /\ backend = NoBackend
    /\ clock = NoClock

Init ==
    /\ file \in StartFiles
    /\ LoopEntry
    /\ pc = "top"
    /\ arg = NoCall
    /\ ret = NoCall

(* ------------------------------------------------------------------ *)
(* Steps of the loop                                                    *)
(* ------------------------------------------------------------------ *)

\* min(POLL_INTERVAL * errors, 60)
Backoff(n) == Min(POLL_INTERVAL * n, BACKOFF_CAP)

\* variant of the handler that lets the exception leave worker_loop
HandlerFatal ==
    /\ errors < MaxErrors
    /\ errors' = errors + 1
    /\ slept' = slept
    /\ pc' = "crashed"

\* except Exception: errors += 1, then the backoff sleep of the handler
Handler ==
    /\ errors < MaxErrors
    /\ errors' = errors + 1
    /\ slept' = Backoff(errors + 1)
    /\ pc' = "handler_sleep"

\* the value of is_within_schedule(settings.get('schedule', {})) when the
\* loop evaluates its first condition; "true" when settings is falsy
GateValue(day, time) ==
    IF Truthy(settings) THEN is_within_schedule(settings.schedule, day, time) ELSE "true"

\* whether that evaluation gets as far as datetime.now(tz)
ReadsClock ==
    /\ Truthy(settings)
    /\ settings.schedule.present
    /\ settings.schedule.enabled
    /\ settings.schedule.timezone = TzOk

\* the reading the gate takes, if it takes one
Gate(day, time) == clock' = IF ReadsClock THEN Reading(day, time) ELSE NoClock

\* variant in which a closed gate is counted as a failure
GateClosedCounted ==
    /\ pc = "top"
    /\ errors < MaxErrors
    /\ \E day \in Days, time \in Times :
          /\ GateValue(day, time) = "false"
          /\ Gate(day, time)
    /\ pc' = "gate_sleep"
    /\ errors' = errors + 1
    /\ slept' = Min(POLL_INTERVAL * (errors + 1), BACKOFF_CAP)
    /\ UNCHANGED <<settings, settings_version, file, resp, data, job, result,
                   post, fails, owed, backendCalls, backend,
                   arg, ret>>

\* the gate forbids polling: sleep POLL_INTERVAL and continue
GateClosed ==
    /\ pc = "top"
    /\ \E day \in Days, time \in Times :
          /\ GateValue(day, time) = "false"
          /\ Gate(day, time)
    /\ pc' = "gate_sleep"
    /\ slept' = POLL_INTERVAL
    /\ UNCHANGED <<settings, settings_version, file, errors, resp, data, job, result,
                   post, fails, owed, backendCalls, backend,
                   arg, ret>>

\* ZoneInfo raises ValueError, which is_within_schedule does not catch
GateRaises ==
    /\ pc = "top"
    /\ \E day \in Days, time \in Times :
          /\ GateValue(day, time) = "raise"
          /\ Gate(day, time)
    /\ Handler
    /\ UNCHANGED <<settings, settings_version, file, resp, data, job, result,
                   post, fails, owed, backendCalls, backend,
                   arg, ret>>

\* the gate permits polling: the GET is sent
GateOpen ==
    /\ pc = "top"
    /\ \E day \in Days, time \in Times :
          /\ GateValue(day, time) = "true"
          /\ Gate(day, time)
    /\ pc' = "polling"
    /\ UNCHANGED <<settings, settings_version, file, errors, resp, data, job, result,
                   post, slept, fails, owed, backendCalls, backend,
                   arg, ret>>

\* variant in which 401 is handled like any other status than 200
Poll401Retried ==
    /\ pc = "polling"
    /\ errors < MaxErrors
    /\ resp' = 401
    /\ errors' = errors + 1
    /\ slept' = Min(POLL_INTERVAL * (errors + 1), BACKOFF_CAP)
    /\ pc' = "status_sleep"
    /\ fails' = fails + 1
    /\ clock' = NoClock
    /\ UNCHANGED <<settings, settings_version, file, data, job, result,
                   post, owed, backendCalls, backend,
                   arg, ret>>

\* status 401: log and return
Poll401 ==
    /\ pc = "polling"
    /\ resp' = 401
    /\ pc' = "stopped"
    /\ clock' = NoClock
    /\ UNCHANGED <<settings, settings_version, file, errors, data, job, result,
                   post, slept, fails, owed, backendCalls, backend,
                   arg, ret>>

\* variant in which a status other than 200 ends the loop
PollBadStatusGivesUp ==
    /\ pc = "polling"
    /\ errors < MaxErrors
    /\ \E s \in BadStatuses : resp' = s
    /\ errors' = errors + 1
    /\ slept' = slept
    /\ pc' = "stopped"
    /\ fails' = fails + 1
    /\ clock' = NoClock
    /\ UNCHANGED <<settings, settings_version, file, data, job, result,
                   post, owed, backendCalls, backend, arg, ret>>

\* another status than 200: errors += 1, backoff sleep, continue
PollBadStatus ==
    /\ pc = "polling"
    /\ errors < MaxErrors
    /\ \E s \in BadStatuses : resp' = s
    /\ errors' = errors + 1
    /\ slept' = Backoff(errors + 1)
    /\ pc' = "status_sleep"
    /\ fails' = fails + 1
    /\ clock' = NoClock
    /\ UNCHANGED <<settings, settings_version, file, data, job, result,
                   post, owed, backendCalls, backend,
                   arg, ret>>

\* requests.get raises (connection error, timeout)
PollRaises ==
    /\ pc = "polling"
    /\ Handler
    /\ fails' = fails + 1
    /\ clock' = NoClock
    /\ UNCHANGED <<settings, settings_version, file, resp, data, job, result,
                   post, owed, backendCalls, backend,
                   arg, ret>>

\* status 200 with a body resp.json() cannot parse
PollUnparseable ==
    /\ pc = "polling"
    /\ resp' = 200
    /\ Handler
    /\ fails' = fails + 1
    /\ clock' = NoClock
    /\ UNCHANGED <<settings, settings_version, file, data, job, result,
                   post, owed, backendCalls, backend,
                   arg, ret>>

\* status 200 with a parsed body
PollOk ==
    /\ pc = "polling"
    /\ \E body \in PollBodies :
          /\ data' = body
          /\ owed' = body.job.id
    /\ resp' = 200
    /\ fails' = 0
    /\ pc' = "sync"
    /\ clock' = NoClock
    /\ UNCHANGED <<settings, settings_version, file, errors, job, result,
                   post, slept, backendCalls, backend,
                   arg, ret>>

\* new_ver = data['config_sync'].get('settings_version', 0)
NewVer(cs) == Get(cs.settings_version, 0)

\* variant of the comparison that also takes an equal version
IsNewerOrSame(new_ver, held) == new_ver >= held

\* if new_ver > settings_version
IsNewer(new_ver, held) == new_ver > held

\* whether the sync block replaces the local settings
Adopts == data.config_sync.present /\ IsNewer(NewVer(data.config_sync), settings_version)

\* what save_settings leaves in the file: the document, or, when it
\* raises, the old content (mkdir or open failed) or a cut-off one (the
\* write failed after open truncated the file)
SaveOutcomes == {"ok", "unwritable", "partial"}

save_settings(old, doc, outcome) ==
    CASE outcome = "ok" -> doc
      [] outcome = "unwritable" -> old
      [] outcome = "partial" -> FileCorrupt

\* no config_sync, or one that is not newer
SyncSkip ==
    /\ pc = "sync"
    /\ ~Adopts
    /\ pc' = "dispatch"
    /\ UNCHANGED <<settings, settings_version, file, errors, resp, data, job, result,
                   post, slept, fails, owed, backendCalls, backend, clock,
                   arg, ret>>

\* a newer config_sync whose settings are truthy, saved
SyncAdopt ==
    /\ pc = "sync"
    /\ Adopts
    /\ Truthy(data.config_sync.settings)
    /\ settings' = data.config_sync.settings
    /\ file' = save_settings(file, data.config_sync.settings, "ok")
    /\ settings_version' = NewVer(data.config_sync)
    /\ pc' = "dispatch"
    /\ UNCHANGED <<errors, resp, data, job, result, post, slept, fails, owed,
                   backendCalls, backend, clock,
                   arg, ret>>

\* a newer config_sync whose settings are missing or empty: settings is
\* assigned, nothing is saved and the version stays
SyncFalsy ==
    /\ pc = "sync"
    /\ Adopts
    /\ ~Truthy(data.config_sync.settings)
    /\ settings' = data.config_sync.settings
    /\ pc' = "dispatch"
    /\ UNCHANGED <<settings_version, file, errors, resp, data, job, result,
                   post, slept, fails, owed, backendCalls, backend, clock,
                   arg, ret>>

\* a newer config_sync whose save_settings raises
SyncSaveRaises ==
    /\ pc = "sync"
    /\ Adopts
    /\ Truthy(data.config_sync.settings)
    /\ settings' = data.config_sync.settings
    /\ \E o \in SaveOutcomes \ {"ok"} :
          file' = save_settings(file, data.config_sync.settings, o)
    /\ Handler
    /\ UNCHANGED <<settings_version, resp, data, job, result, post, fails, owed,
                   backendCalls, backend, clock,
                   arg, ret>>

\* job = data.get('job'), truthy: errors = 0 and process_job starts
DispatchJob ==
    /\ pc = "dispatch"
    /\ data.job # NoJob
    /\ job' = data.job
    /\ errors' = 0
    /\ pc' = "processing"
    /\ UNCHANGED <<settings, settings_version, file, resp, data, result, post,
                   slept, fails, owed, backendCalls, backend, clock,
                   arg, ret>>

\* no job: errors = 0 and the poll-interval sleep
DispatchIdle ==
    /\ pc = "dispatch"
    /\ data.job = NoJob
    /\ job' = data.job
    /\ errors' = 0
    /\ slept' = POLL_INTERVAL
    /\ pc' = "idle_sleep"
    /\ UNCHANGED <<settings, settings_version, file, resp, data, result, post,
                   fails, owed, backendCalls, backend, clock,
                   arg, ret>>

\* variant in which a failed inference is tried a second time
ProcessRetrying ==
    /\ pc = "processing"
    /\ \E b \in BackendOutcomes :
          /\ result' = process_job(job, b)
          /\ backend' = IF CallsBackend(job) THEN b ELSE NoBackend
    /\ backendCalls' = IF ~CallsBackend(job) THEN backendCalls
                       ELSE IF "error" \in result'.keys THEN backendCalls + 2
                       ELSE backendCalls + 1
    /\ post' = [id |-> job.id, body |-> result']
    /\ owed' = IF owed = job.id THEN "<none>" ELSE owed
    /\ pc' = "reporting"
    /\ UNCHANGED <<settings, settings_version, file, errors, resp, data, job,
                   slept, fails, clock,
                   arg, ret>>

\* process_job returns and the completion POST is sent
Process ==
    /\ pc = "processing"
    /\ \E b \in BackendOutcomes :
          /\ result' = process_job(job, b)
          /\ backend' = IF CallsBackend(job) THEN b ELSE NoBackend
    /\ backendCalls' = IF CallsBackend(job) THEN backendCalls + 1 ELSE backendCalls
    /\ post' = [id |-> job.id, body |-> result']
    /\ owed' = IF owed = job.id THEN "<none>" ELSE owed
    /\ pc' = "reporting"
    /\ UNCHANGED <<settings, settings_version, file, errors, resp, data, job,
                   slept, fails, clock,
                   arg, ret>>

\* resp, data, job and result are assigned in every iteration before they
\* are read, and slept, post, backend, backendCalls and clock describe the
\* iteration's own calls: an iteration starts with all of them blank
NewIteration ==
    /\ pc' = "top"
    /\ resp' = 0
    /\ data' = NoData
    /\ job' = NoJob
    /\ result' = NoResult
    /\ post' = NoPost
    /\ slept' = 0
    /\ backendCalls' = 0
    /\ backend' = NoBackend
    /\ clock' = NoClock

\* the completion POST returns, whatever its status
ReportReturns ==
    /\ pc = "reporting"
    /\ NewIteration
    /\ UNCHANGED <<settings, settings_version, file, errors, fails, owed,
                   arg, ret>>

\* the completion POST raises
ReportRaises ==
    /\ pc = "reporting"
    /\ Handler
    /\ UNCHANGED <<settings, settings_version, file, resp, data, job, result,
                   post, fails, owed, backendCalls, backend, clock,
                   arg, ret>>

Sleeps == {"gate_sleep", "status_sleep", "idle_sleep", "handler_sleep"}

\* a sleep ends and the loop goes round
Wake ==
    /\ pc \in Sleeps
    /\ NewIteration
    /\ UNCHANGED <<settings, settings_version, file, errors, fails, owed,
                   arg, ret>>

\* KeyboardInterrupt inside the try: log and break
InterruptCaught ==
    /\ pc \in InTry
    /\ pc' = "stopped"
    /\ UNCHANGED <<settings, settings_version, file, errors, resp, data, job, result,
                   post, slept, fails, owed, backendCalls, backend, clock,
                   arg, ret>>

\* KeyboardInterrupt in the sleep of the except Exception handler: no
\* handler of worker_loop catches it
InterruptEscapes ==
    /\ pc = "handler_sleep"
    /\ pc' = "crashed"
    /\ UNCHANGED <<settings, settings_version, file, errors, resp, data, job, result,
                   post, slept, fails, owed, backendCalls, backend, clock,
                   arg, ret>>

Next ==
    \/ GateClosed
    \/ GateRaises
    \/ GateOpen
    \/ Poll401
    \/ PollBadStatus
    \/ PollRaises
    \/ PollUnparseable
    \/ PollOk
    \/ SyncSkip
    \/ SyncAdopt
    \/ SyncFalsy
    \/ SyncSaveRaises
    \/ DispatchJob
    \/ DispatchIdle
    \/ Process
    \/ ReportReturns
    \/ ReportRaises
    \/ Wake
    \/ InterruptCaught
    \/ InterruptEscapes

Spec == Init /\ [][Next]_vars

\* worker_loop is entered again by a new process after the loop has ended:
\* settings and settings_version come from the file the last run left
Restart ==
    /\ pc \in {"stopped", "crashed"}
    /\ settings' = load_settings(file)
    /\ settings_version' = InitialVersion(load_settings(file))
    /\ errors' = 0
    /\ fails' = 0
    /\ owed' = "<none>"
    /\ pc' = "top"
    /\ resp' = 0
    /\ data' = NoData
    /\ job' = NoJob
    /\ result' = NoResult
    /\ post' = NoPost
    /\ slept' = 0
    /\ backendCalls' = 0
    /\ backend' = NoBackend
    /\ clock' = NoClock
    /\ UNCHANGED <<file, arg, ret>>

NextRestart ==
    \/ Next
    \/ Restart

\* the worker over its whole life, stops and restarts included
SpecRestart == Init /\ [][NextRestart]_vars

\* the loop with no KeyboardInterrupt delivered
NextLive ==
    \/ GateClosed
    \/ GateRaises
    \/ GateOpen
    \/ Poll401
    \/ PollBadStatus
    \/ PollRaises
    \/ PollUnparseable
    \/ PollOk
    \/ SyncSkip
    \/ SyncAdopt
    \/ SyncFalsy
    \/ SyncSaveRaises
    \/ DispatchJob
    \/ DispatchIdle
    \/ Process
    \/ ReportReturns
    \/ ReportRaises
    \/ Wake

\* every call the loop blocks in is bounded: the requests carry timeouts
\* and the sleeps are finite, so a step that can be taken is taken
SpecLive == Init /\ [][NextLive]_vars /\ WF_vars(NextLive)

(* ------------------------------------------------------------------ *)
(* is_within_schedule and run_sdxl called on their own                  *)
(* ------------------------------------------------------------------ *)

\* sequences over S of length at most n
RECURSIVE SeqsUpTo(_, _)
SeqsUpTo(S, n) ==
    IF n = 0 THEN {<<>>}
    ELSE LET shorter == SeqsUpTo(S, n - 1)
         IN  shorter \cup {Append(q, x) : q \in shorter, x \in S}

RuleChoices ==
    {Rule(d, s, e) : d \in {{"mon"}, {"mon", "tue"}},
                     s \in {T0900, T1700, NoTime},
                     e \in {T1200, NoTime}}

ScheduleChoices ==
    {NoSchedule} \cup
    {Schedule(en, tz, rules) : en \in BOOLEAN,
                               tz \in {TzOk, TzUnknown, TzMalformed},
                               rules \in SeqsUpTo(RuleChoices, MaxRules)}

ClockChoices == {Reading(d, t) : d \in Days, t \in {T0800, T0900, T1200, T2000}}

InitSchedule ==
    /\ file = FileAbsent
    /\ LoopEntry
    /\ pc = "call"
    /\ arg \in [schedule : ScheduleChoices, clock : ClockChoices]
    /\ ret = ""

\* is_within_schedule(schedule) with datetime.now(tz) reading arg.clock
CallSchedule ==
    /\ pc = "call"
    /\ ret' = is_within_schedule(arg.schedule, arg.clock.day, arg.clock.time)
    /\ pc' = "returned"
    /\ UNCHANGED <<settings, settings_version, file, errors, resp, data, job, result,
                   post, slept, fails, owed, backendCalls, backend, clock, arg>>

SpecSchedule == InitSchedule /\ [][CallSchedule]_vars

\* the answers of the backend: a transport exception, or a status with a
\* body that does not parse or that parses to a dict
BackendChoices ==
    {Backend("exception", 0, FALSE, <<>>, NoImage, NoKey)} \cup
    {Backend("http", st, FALSE, <<>>, NoImage, NoKey) : st \in {200, 404, 500}} \cup
    {Backend("http", st, TRUE, imgs, img, seed) :
        st \in {200, 404, 500},
        imgs \in SeqsUpTo({"abc", "def"}, MaxImages),
        img \in {NoImage, "xyz"},
        seed \in {NoKey, 42}}

InitInference ==
    /\ file = FileAbsent
    /\ LoopEntry
    /\ pc = "call"
    /\ arg \in BackendChoices
    /\ ret = NoResult

\* run_sdxl(params) with the backend answering arg
CallInference ==
    /\ pc = "call"
    /\ ret' = run_sdxl(arg)
    /\ pc' = "returned"
    /\ UNCHANGED <<settings, settings_version, file, errors, resp, data, job, result,
                   post, slept, fails, owed, backendCalls, backend, clock, arg>>

SpecInference == InitInference /\ [][CallInference]_vars

(* ------------------------------------------------------------------ *)
(* Properties                                                           *)
(* ------------------------------------------------------------------ *)

\* C1: the backoff sleep taken after the N-th consecutive transient poll
\* failure (no parsed 200 in between) lasts min(POLL_INTERVAL * N, 60)
C1_BackoffOfStreak == [][fails' = fails + 1 => slept' = Backoff(fails')]_vars

\* C2: an iteration whose poll returned 200 with a parsed body ends with
\* errors = 0
C2_SuccessResets == [][(resp = 200 /\ fails = 0 /\ pc' = "top") => errors' = 0]_vars

\* the response in hand carries a config_sync that is not newer than the
\* held version
NotNewer ==
    /\ data.config_sync.present
    /\ NewVer(data.config_sync) <= settings_version

\* C3: while the response in hand carries a config_sync whose
\* settings_version is equal to or lower than the held version, no step
\* changes the settings, the settings file or the held version
C3_NonAdoption ==
    [][NotNewer => /\ settings' = settings
                   /\ file' = file
                   /\ settings_version' = settings_version]_vars

\* the sync block has run over a config_sync of a lower version carrying
\* other, truthy settings
C3_Reached ==
    /\ pc = "dispatch"
    /\ data.config_sync.present
    /\ NewVer(data.config_sync) < settings_version
    /\ Truthy(data.config_sync.settings)
    /\ data.config_sync.settings # settings

\* C4: the sync block run over a config_sync of a strictly greater version
\* leaves the payload's settings in memory and in the file, and the
\* payload's version as the held version
C4_AdoptsAllThree ==
    [][(/\ pc = "sync"
        /\ pc' # "stopped"
        /\ data.config_sync.present
        /\ NewVer(data.config_sync) > settings_version)
       => /\ settings' = data.config_sync.settings
          /\ file' = data.config_sync.settings
          /\ settings_version' = NewVer(data.config_sync)]_vars

\* C5: a poll answered 401 stops the loop in that step, with no completion
\* request, no sleep and the same errors; once stopped, the loop stays
\* stopped and sends nothing
C5_AuthStops ==
    [][/\ (pc = "polling" /\ resp' = 401)
            => /\ pc' = "stopped"
               /\ errors' = errors
               /\ slept' = slept
               /\ post' = post
       /\ pc = "stopped" => /\ pc' = "stopped"
                            /\ resp' = resp
                            /\ post' = post]_vars

\* the loop has stopped on a 401
C5_Reached == pc = "stopped" /\ resp = 401 /\ post = NoPost /\ slept = 0

\* C6: however the completion request ends, returned or raised, the loop
\* goes to its next iteration with errors = 0 and without a sleep
C6_CompletionIgnored ==
    [][(pc = "reporting" /\ pc' # "stopped")
       => /\ pc' = "top"
          /\ errors' = 0
          /\ slept' = 0]_vars

\* the four job-level failures: unsupported service, backend status other
\* than 200, backend answer without an image, transport exception
JobLevelFailure(j, b) ==
    \/ ~CallsBackend(j)
    \/ b.kind = "exception"
    \/ b.kind = "http" /\ b.status # 200
    \/ b.kind = "http" /\ b.status = 200
          /\ (~b.json \/ (Len(b.images) = 0 /\ b.image = NoImage))

\* C7: when process_job ends in a job-level failure, its result carries
\* an error and no result, the completion request for that job is sent
\* with it, errors is 0 before and after, and the loop does not stop
C7_JobFailureReported ==
    [][(/\ pc = "processing"
        /\ result' # result
        /\ JobLevelFailure(job, backend'))
       => /\ result'.keys = {"error"}
          /\ result'.error # NoErr
          /\ pc' = "reporting"
          /\ post' = [id |-> job.id, body |-> result']
          /\ errors = 0
          /\ errors' = 0]_vars

\* the completion request of a job the backend answered with 500 is out
C7_Reached ==
    /\ pc = "reporting"
    /\ backend.kind = "http"
    /\ backend.status = 500
    /\ result.keys = {"error"}
    /\ post = [id |-> job.id, body |-> result]

\* C8: when settings are held and is_within_schedule is false at the
\* reading taken, the loop sleeps POLL_INTERVAL and goes round without a
\* poll or a completion request and with errors, settings, file and version
\* unchanged; without settings (None or empty) the gate never sleeps
C8_GateSleeps ==
    [][/\ (/\ pc = "top"
           /\ Truthy(settings)
           /\ clock' # NoClock
           /\ is_within_schedule(settings.schedule, clock'.day, clock'.time) = "false")
          => /\ pc' = "gate_sleep"
             /\ slept' = POLL_INTERVAL
             /\ UNCHANGED <<errors, settings, settings_version, file, resp, data, post>>
       /\ pc = "gate_sleep"
          => /\ pc' \in {"top", "stopped"}
             /\ resp' = 0
             /\ post' = NoPost
             /\ UNCHANGED <<errors, settings, settings_version, file>>
       /\ (pc = "top" /\ ~Truthy(settings)) => pc' \in {"polling", "stopped"}]_vars

\* the gate sleeps with a nonzero errors
C8_Reached ==
    /\ pc = "gate_sleep"
    /\ Truthy(settings)
    /\ is_within_schedule(settings.schedule, clock.day, clock.time) = "false"
    /\ errors = 2
    /\ slept = POLL_INTERVAL

\* C9: a loop stopped with a job in hand has sent that job's completion
\* request
C9_CancelReports ==
    (pc = "stopped" /\ job # NoJob) => post = [id |-> job.id, body |-> result]

\* C10: a poll is sent only when the job of the poll before it, if any,
\* has had its completion request sent, and a completion request carries
\* the id of the job of the response in hand
C10_ExactlyOnce ==
    /\ pc = "polling" => owed = "<none>"
    /\ pc = "reporting" => post.id = data.job.id

\* C11: the held settings_version never goes down, a restart that
\* reloads it from the settings file included
C11_VersionMonotone == [][settings_version' >= settings_version]_vars

\* every variable but pc
AllButPc == <<settings, settings_version, file, errors, resp, data, job, result,
              post, slept, fails, owed, backendCalls, backend, clock, arg, ret>>

Ended == {"stopped", "crashed"}

\* C12: the loop ends only on a poll answered 401 or on a step that
\* changes nothing but the position (a KeyboardInterrupt); every step that
\* raises errors is followed by a backoff sleep of the loop
C12_OnlyAuthStops ==
    [][/\ (pc \notin Ended /\ pc' \in Ended)
            => \/ pc = "polling" /\ resp' = 401 /\ pc' = "stopped"
               \/ UNCHANGED AllButPc
       /\ errors' > errors
            => /\ pc' \in {"status_sleep", "handler_sleep"}
               /\ slept' = Backoff(errors')]_vars

\* a failed write of the settings file has been absorbed into a backoff
C12_Reached ==
    /\ pc = "handler_sleep"
    /\ file = FileCorrupt
    /\ data.config_sync.present
    /\ errors = 1

\* C13: the body of every completion request has exactly one of the keys
\* error and result, with the other field blank
C13_OneOfErrorResult ==
    post # NoPost =>
        \/ /\ post.body.keys = {"error"}
           /\ post.body.error # NoErr
           /\ post.body.result = NoPayload
        \/ /\ post.body.keys = {"result"}
           /\ post.body.error = NoErr
           /\ post.body.result # NoPayload

\* a completion request with a result is out
C13_Reached ==
    /\ pc = "reporting"
    /\ post.body.keys = {"result"}
    /\ post.body.result.image = "abc"

\* C14: a job of another service than sdxl gets the error 'Unsupported
\* service: <tag>' and no backend request; a job of service sdxl, or
\* without a service, gets exactly one backend request
C14_ServiceGate ==
    /\ pc = "processing" => backendCalls = 0
    /\ pc = "reporting" =>
          IF job.service \notin {"sdxl", NoService}
          THEN /\ backendCalls = 0
               /\ backend = NoBackend
               /\ result = Out({"error"}, Err("Unsupported service", 0, job.service),
                               NoPayload)
          ELSE /\ backendCalls = 1
               /\ backend # NoBackend

\* an unsupported job has been answered without a backend request
C14_Reached ==
    /\ pc = "reporting"
    /\ job.service = "unknown"
    /\ backendCalls = 0
    /\ result.error.msg = "Unsupported service"

\* C18: the steps of an iteration follow the order poll, settings sync,
\* process, report, and while a job is in hand the response in hand stays
\* the same (no other poll) and at most one backend request is made
C18_OneJobInFlight ==
    [][/\ pc = "polling" => pc' \in {"sync", "status_sleep", "handler_sleep", "stopped"}
       /\ pc = "sync" => pc' \in {"dispatch", "handler_sleep", "stopped"}
       /\ pc = "dispatch" => pc' \in {"processing", "idle_sleep", "stopped"}
       /\ pc = "processing" => pc' \in {"reporting", "stopped"}
       /\ pc = "reporting" => pc' \in {"top", "handler_sleep", "stopped"}
       /\ (pc \in {"processing", "reporting"} /\ pc' \in {"processing", "reporting"})
            => /\ data' = data
               /\ job' = job
               /\ job = data.job
               /\ backendCalls' <= 1]_vars

\* a job is being reported after a sync that adopted the response's settings
C18_Reached ==
    /\ pc = "reporting"
    /\ job = data.job
    /\ backendCalls = 1
    /\ data.config_sync.present
    /\ settings = data.config_sync.settings
    /\ settings_version = NewVer(data.config_sync)

\* C19: a KeyboardInterrupt never leaves worker_loop uncaught
C19_InterruptCaught == pc # "crashed"

\* the response in hand brought settings with an enabled schedule, now held
InstalledSchedule ==
    /\ data.config_sync.present
    /\ settings = data.config_sync.settings
    /\ Truthy(settings)
    /\ settings.schedule.enabled

\* C20: between a poll and the end of its iteration the gate does not
\* act, and an iteration whose response brought a job and installed a
\* schedule ends with that job's completion request sent
C20_GateOnlyAtTop ==
    [][/\ pc \in {"polling", "sync", "dispatch", "processing", "reporting"}
            => pc' # "gate_sleep"
       /\ (data.job # NoJob /\ InstalledSchedule /\ pc' = "top")
            => post.id = data.job.id]_vars

\* rule i of schedule s matches day d and time t, the window taken
\* inclusive in string order
InWindow(s, i, d, t) ==
    /\ d \in s.rules[i].days
    /\ StrLeq(GetTime(s.rules[i].start_time, T0000), t)
    /\ StrLeq(t, GetTime(s.rules[i].end_time, T2359))

\* rule i of schedule s starts after it ends
Inverted(s, i) ==
    ~StrLeq(GetTime(s.rules[i].start_time, T0000), GetTime(s.rules[i].end_time, T2359))

\* C15: is_within_schedule returns true for an absent or disabled
\* schedule; for an enabled one with a valid timezone it returns true
\* exactly when some rule has the weekday and start <= time <= end, false
\* otherwise, so a rule that starts after it ends matches at no time
C15_ScheduleGate ==
    pc = "returned" =>
        LET s == arg.schedule
            d == arg.clock.day
            t == arg.clock.time
        IN  /\ (~s.present \/ ~s.enabled) => ret = "true"
            /\ (s.present /\ s.enabled /\ s.timezone = TzOk) =>
                  /\ ret \in {"true", "false"}
                  /\ ret = "true" <=> \E i \in 1..Len(s.rules) : InWindow(s, i, d, t)
                  /\ (\A i \in 1..Len(s.rules) : Inverted(s, i)) => ret = "false"

\* true was returned at the very end of a rule's window
C15_Reached ==
    /\ pc = "returned"
    /\ ret = "true"
    /\ arg.schedule.enabled
    /\ arg.schedule.timezone = TzOk
    /\ Len(arg.schedule.rules) = 1
    /\ arg.schedule.rules[1].end_time = arg.clock.time
    /\ arg.clock.day = "tue"

\* the cases of run_sdxl the two statements of C16 share
MappingBut200WithoutImage ==
    /\ Cardinality(ret.keys) = 1
    /\ arg.kind = "exception" => (ret.keys = {"error"} /\ ret.error # NoErr)
    /\ (arg.kind = "http" /\ arg.status # 200)
          => ret = Out({"error"}, Err("Server error", arg.status, ""), NoPayload)
    /\ (arg.kind = "http" /\ arg.status = 200 /\ arg.json /\ Len(arg.images) > 0)
          => ret = Out({"result"}, NoErr,
                       [image |-> arg.images[1], seed |-> Get(arg.seed, -1),
                        timed |-> FALSE])
    /\ (arg.kind = "http" /\ arg.status = 200 /\ arg.json /\ Len(arg.images) = 0
          /\ arg.image # NoImage)
          => ret = Out({"result"}, NoErr,
                       [image |-> arg.image, seed |-> Get(arg.seed, -1),
                        timed |-> FALSE])

\* the answer is a 200 that brings neither a non-empty images list nor an
\* image field
Has200WithoutImage ==
    /\ arg.kind = "http"
    /\ arg.status = 200
    /\ ~(arg.json /\ (Len(arg.images) > 0 \/ arg.image # NoImage))

GateFails ==
    /\ Truthy(settings)
    /\ \A day \in Days, time \in Times : GateValue(day, time) = "raise"

\* the loop has ended on a 401
AuthEnded == pc = "stopped" /\ resp = 401

\* a poll is being sent, or the gate has just refused one
PollsOrGated == pc = "polling" \/ pc = "gate_sleep" \/ GateFails

\* the worker sleeps after a poll that failed
AfterFailedPoll == pc \in Sleeps /\ fails > 0

\* C17: with no cancellation, the worker polls again and again unless a
\* 401 ended it or the gate refuses; every sleep is at most 60 seconds and
\* a failed poll is always followed by another poll (or a refusing gate),
\* however long the streak of failures
C17_PollsForever ==
    /\ [](pc \in Sleeps => slept <= BACKOFF_CAP)
    /\ []<>(PollsOrGated \/ AuthEnded)
    /\ [](AfterFailedPoll => <>PollsOrGated)

\* a poll is sent after a streak of failures long enough for the cap
C17_Reached ==
    /\ pc = "polling"
    /\ fails * POLL_INTERVAL >= BACKOFF_CAP
    /\ errors = fails

====
